---- MODULE Spec2Model ----
(***************************************************************************)
(* Model of the Deep Eye outbound request layer and report generator:      *)
(*   src/utils/http_client.py     HTTPClient (requests.Session + Retry)    *)
(*   src/core/report_generator.py ReportGenerator                          *)
(*                                                                         *)
(* The specifications share the variables:                                 *)
(*   Spec           one HTTPClient and the calls made on it                *)
(*   SpecSession    clients that differ in config, proxy and cookies       *)
(*   SpecPolicy     the mounted retry policy, for every method             *)
(*   SpecConcurrent several callers on one HTTPClient at the same time     *)
(*   SpecReport     one ReportGenerator and the generate() calls on it     *)
(*   SpecResults    generate() over the results structures                 *)
(*   SpecSort       _sort_vulnerabilities as used by _generate_html        *)
(* Each leaves the variables it does not use at their initial values.      *)
(***************************************************************************)
EXTENDS Integers, Sequences, FiniteSets, TLC

VARIABLES
    \* ---- HTTPClient: construction ----
    config,           \* self.config: the scanner settings given to __init__
    timeout,          \* self.timeout
    verify_ssl,       \* self.verify_ssl
    proxies,          \* self.session.proxies
    cookies,          \* the cookies argument of __init__, in dict order
    cookie_jar,       \* self.session.cookies
    max_retries,      \* self.max_retries (scanner.max_retries)
    custom_headers,   \* the custom_headers argument of __init__, in dict order
    session_headers,  \* self.session.headers, a CaseInsensitiveDict
    \* ---- HTTPClient: the call in progress ----
    pc,               \* "idle" | "sending" | "done"
    method,           \* verb of the request being sent
    url,              \* the url argument
    headers,          \* the per-call headers argument, in dict order
    allow_redirects,  \* the allow_redirects flag of the call
    extra_kwargs,     \* keyword names passed through **kwargs
    sent_headers,     \* headers of the prepared request
    sent_cookies,     \* name/value pairs of the Cookie header of the request
    req_timeout,      \* timeout the request is sent with
    req_verify,       \* verify flag the request is sent with
    overridden,       \* some call on this client was given per-call headers
    in_try,           \* the request is made inside the try of get/post/head/options
    total,            \* Retry.total left for the request being sent
    attempts,         \* transport attempts made by this call
    hops,             \* redirects followed by this call
    last,             \* outcome of the latest attempt
    all_failed,       \* every attempt so far raised a transport error
    all_forced,       \* every attempt so far was answered with a status_forcelist code
    result,           \* what the call returned
    raised,           \* exception that left the call, "none" if none
    \* ---- ReportGenerator ----
    fs,               \* file system: path -> content
    unwritable,       \* paths whose open(path, 'w') fails
    gen,              \* "idle" | "returned" | "raised"
    format,           \* the format argument of the latest generate()
    output_path,      \* the output_path argument of the latest generate()
    conv,             \* "not_run" | "ok" | "failed": the weasyprint step
    fs_ops,           \* file operations performed by the latest generate()
    log,              \* log levels emitted by the latest generate()
    gen_raised,       \* exception that left generate(), "none" if none
    results,          \* the results argument of generate()
    json_out,         \* what the latest generate() wrote with json.dump
    \* ---- _sort_vulnerabilities ----
    vulnerabilities,  \* input list
    rendered,         \* the list handed to the template, in rendering order
    sort_pc,          \* "input" | "rendered"
    \* ---- HTTPClient: calls in flight at the same time on one client ----
    inflight,         \* per caller: the state of its call
    adapter_retry     \* total of the Retry object mounted on the adapter

client_vars == <<config, timeout, verify_ssl, proxies, cookies, cookie_jar,
                 max_retries, custom_headers, session_headers, pc, method, url,
                 headers, allow_redirects, extra_kwargs, sent_headers,
                 sent_cookies, req_timeout, req_verify, overridden, in_try, total,
                 attempts, hops, last, all_failed, all_forced, result, raised>>
report_vars == <<fs, unwritable, gen, format, output_path, conv,
                 fs_ops, log, gen_raised,
                 results, json_out>>
sort_vars == <<vulnerabilities, rendered, sort_pc>>
concurrent_vars == <<inflight, adapter_retry>>
vars == <<client_vars, report_vars, sort_vars, concurrent_vars>>

-----------------------------------------------------------------------------
(* Bounds of the model.                                                    *)

\* scanner.max_retries ranges over 0..MaxRetries
MaxRetries == 2
\* redirects the target offers within one call
MaxHops == 1
\* entries of the custom_headers mapping and of a per-call headers mapping
MaxHeaders == 1
\* length of the vulnerability list handed to _sort_vulnerabilities
MaxVulns == 3
\* callers that use one client at the same time
MaxCallers == 2
\* length of results['vulnerabilities'] handed to generate
MaxReportVulns == 2

-----------------------------------------------------------------------------
(* Strings are sequences of one-character strings, so that str.lower() and *)
(* str.replace() are computed and not assumed.                             *)

UpperCase == <<"A","B","C","D","E","F","G","H","I","J","K","L","M",
               "N","O","P","Q","R","S","T","U","V","W","X","Y","Z">>
LowerCase == <<"a","b","c","d","e","f","g","h","i","j","k","l","m",
               "n","o","p","q","r","s","t","u","v","w","x","y","z">>

\* the lower-case letter of every upper-case letter
ToLower ==
    [c \in {UpperCase[i] : i \in DOMAIN UpperCase} |->
        LowerCase[CHOOSE i \in DOMAIN UpperCase : UpperCase[i] = c]]

LowerChar(c) == IF c \in DOMAIN ToLower THEN ToLower[c] ELSE c

\* str.lower()
Lower(s) == [i \in DOMAIN s |-> LowerChar(s[i])]

-----------------------------------------------------------------------------
(* HTTPClient                                                              *)

\* header names
H_User_Agent      == <<"U","s","e","r","-","A","g","e","n","t">>
H_user_agent      == <<"u","s","e","r","-","a","g","e","n","t">>
H_Accept          == <<"A","c","c","e","p","t">>
H_Accept_Language == <<"A","c","c","e","p","t","-","L","a","n","g","u","a","g","e">>
H_Accept_Encoding == <<"A","c","c","e","p","t","-","E","n","c","o","d","i","n","g">>
H_Connection      == <<"C","o","n","n","e","c","t","i","o","n">>
H_X_Scan          == <<"X","-","S","c","a","n">>
H_x_scan          == <<"x","-","s","c","a","n">>

\* self.user_agent: scanner.user_agent, left at its default
user_agent == "Deep-Eye/1.0"

\* headers of a fresh requests.Session (requests.utils.default_headers)
RequestsDefaultHeaders ==
    <<  <<H_User_Agent, "python-requests">>,
        <<H_Accept_Encoding, "gzip, deflate">>,
        <<H_Accept, "*/*">>,
        <<H_Connection, "keep-alive">>  >>

\* the mapping of self.session.headers.update({...}) in __init__
DefaultHeaders ==
    <<  <<H_User_Agent, user_agent>>,
        <<H_Accept, "*/*">>,
        <<H_Accept_Language, "en-US,en;q=0.9">>,
        <<H_Accept_Encoding, "gzip, deflate">>,
        <<H_Connection, "keep-alive">>  >>

\* CaseInsensitiveDict.__setitem__: the store is keyed by key.lower()
SetItem(d, name, value) ==
    LET key == Lower(name)
    IN  [k \in DOMAIN d \cup {key} |-> IF k = key THEN value ELSE d[k]]

\* CaseInsensitiveDict.update(mapping): one __setitem__ per entry, in order
RECURSIVE Update(_, _)
Update(d, pairs) ==
    IF pairs = <<>> THEN d
    ELSE Update(SetItem(d, Head(pairs)[1], Head(pairs)[2]), Tail(pairs))

EmptyDict == [k \in {} |-> ""]

\* self.session.headers after __init__
ConstructedHeaders(custom) ==
    Update(Update(Update(EmptyDict, RequestsDefaultHeaders), DefaultHeaders), custom)

\* requests.sessions.merge_setting(request.headers, session.headers)
MergeSettingSessionWins(request_setting, session_setting) ==
    LET r == Update(EmptyDict, request_setting)
    IN  [k \in DOMAIN r \cup DOMAIN session_setting |->
            IF k \in DOMAIN session_setting THEN session_setting[k] ELSE r[k]]
MergeSetting(request_setting, session_setting) ==
    Update(session_setting, request_setting)

\* Retry(status_forcelist=[429, 500, 502, 503, 504])
status_forcelist_with_404 == {404, 429, 500, 502, 503, 504}
status_forcelist_without_503 == {429, 500, 502, 504}
status_forcelist == {429, 500, 502, 503, 504}

\* Retry(allowed_methods=["HEAD", "GET", "OPTIONS", "POST"])
allowed_methods == {"HEAD", "GET", "OPTIONS", "POST"}

\* Retry(total=self.max_retries): the budget of one request
RetryTotalOneLess == IF max_retries > 0 THEN max_retries - 1 ELSE 0
RetryTotalOneMore == max_retries + 1
RetryTotal == max_retries

\* urllib3 Retry.RETRY_AFTER_STATUS_CODES, honoured because the Retry object
\* is built with the default respect_retry_after_header
RETRY_AFTER_STATUS_CODES == {413, 429, 503}

\* requests REDIRECT_STATI: a response with one of these and a Location
\* header is followed when allow_redirects is set
REDIRECT_STATI == {301, 302, 303, 307, 308}

\* keywords the four operations pass to the session themselves; the same
\* keyword arriving through **kwargs makes the call expression a TypeError
ExplicitKeywords == {"timeout", "verify"}

\* keywords Session.request accepts; any other keyword is a TypeError
SessionKeywords == {"params", "data", "headers", "cookies", "files", "auth",
                    "timeout", "allow_redirects", "proxies", "hooks", "stream",
                    "verify", "cert", "json"}

\* the status codes the properties below call retryable
RetryableCodes == {429, 500, 502, 503, 504}

\* outcomes of one transport attempt; set_cookie is what the response asks
\* for the session cookie: "none", "set" (a new value) or "expire".
\* Failure: no connection (refused, DNS, connect timeout, TLS)
Failure == [kind |-> "Failure", status |-> 0, retry_after |-> FALSE,
            location |-> FALSE, set_cookie |-> "none"]
\* ReadFailure: the request was sent and no response could be read
ReadFailure == [kind |-> "ReadFailure", status |-> 0, retry_after |-> FALSE,
                location |-> FALSE, set_cookie |-> "none"]
Response(s, ra, loc) == [kind |-> "Response", status |-> s, retry_after |-> ra,
                         location |-> loc, set_cookie |-> "none"]
WithCookie(o, sc) == [o EXCEPT !.set_cookie = sc]
\* the values a call returns besides a response
None == [kind |-> "None", status |-> 0, retry_after |-> FALSE,
         location |-> FALSE, set_cookie |-> "none"]
NoValue == [kind |-> "NoValue", status |-> 0, retry_after |-> FALSE,
            location |-> FALSE, set_cookie |-> "none"]

\* what the target may answer to one attempt
Outcomes ==
    {Failure}
    \cup {Response(s, FALSE, FALSE) : s \in {200, 302, 404, 413, 500, 503}}
    \cup {Response(s, TRUE, FALSE) : s \in {413, 503}}
    \cup {Response(302, FALSE, TRUE)}

Methods == {"GET", "POST", "HEAD", "OPTIONS"}
Urls == {"http://target/", "target"}
\* requests raises MissingSchema (a RequestException) for a url without scheme
HasScheme(u) == u = "http://target/"

HeaderNames == {H_user_agent, H_X_Scan, H_x_scan}
\* the value a custom header is given at construction, and a per-call header
CustomValues == {"custom"}
PerCallValues == {"per-call"}
RECURSIVE SeqsUpTo(_, _)
SeqsUpTo(S, n) ==
    IF n = 0 THEN {<<>>}
    ELSE LET shorter == SeqsUpTo(S, n - 1)
         IN  shorter \cup {Append(q, x) : q \in {r \in shorter : Len(r) = n - 1}, x \in S}
\* a header mapping has one entry per header name (names are case-insensitive)
DistinctKeys(pairs) ==
    \A i, j \in DOMAIN pairs : i # j => Lower(pairs[i][1]) # Lower(pairs[j][1])
HeaderMappings(values) ==
    {m \in SeqsUpTo(HeaderNames \X values, MaxHeaders) : DistinctKeys(m)}
CustomHeaderMappings == HeaderMappings(CustomValues)
PerCallHeaderMappings == HeaderMappings(PerCallValues)
KwargSets == {{}, {"timeout"}, {"verify"}, {"retries"}}

\* scanner_config.get('timeout', 10)
DefaultTimeout == 10
\* the scanner settings a client is constructed with
Configs ==
    [timeout : {DefaultTimeout, DefaultTimeout \div 2}, verify_ssl : BOOLEAN,
     max_retries : 0..MaxRetries]
NoProxy == "none"
Proxy == "http://proxy:8080"
\* timeout value of a request that was not sent through the four operations
NoTimeout == 0

\* the host the url names
Host == "target"
CookieName == "sid"
\* the cookies argument of __init__
CookieMappings == {<<>>, << <<CookieName, "ctor">> >>}
\* RequestsCookieJar.update(dict): create_cookie(name, value) has domain ''
JarOf(pairs) ==
    {[domain |-> "", name |-> pairs[i][1], value |-> pairs[i][2]] : i \in DOMAIN pairs}
\* a jar keyed by cookie name only
StoreCookiesByName(jar, sc) ==
    IF sc = "set"
    THEN {c \in jar : c.name # CookieName}
            \cup {[domain |-> Host, name |-> CookieName, value |-> "srv"]}
    ELSE IF sc = "expire"
    THEN {c \in jar : c.name # CookieName}
    ELSE jar
\* extract_cookies_to_jar(self.cookies, request, response): a cookie of the
\* response is stored, or cleared, under (domain of the host, path, name)
StoreCookies(jar, sc) ==
    IF sc = "set"
    THEN {c \in jar : ~(c.domain = Host /\ c.name = CookieName)}
            \cup {[domain |-> Host, name |-> CookieName, value |-> "srv"]}
    ELSE IF sc = "expire"
    THEN {c \in jar : ~(c.domain = Host /\ c.name = CookieName)}
    ELSE jar
\* get_cookie_header: the cookies of the jar whose domain matches the host;
\* a cookie with domain '' matches every host
CookieHeader(jar) ==
    {<<c.name, c.value>> : c \in {d \in jar : d.domain = "" \/ d.domain = Host}}

\* the methods leave self.config, self.timeout, self.verify_ssl,
\* self.max_retries and self.session.proxies alone; here a call uses up the
\* configured retries
ClientConfigConsumed ==
    /\ max_retries' = IF max_retries > 0 THEN max_retries - 1 ELSE 0
    /\ UNCHANGED <<config, timeout, verify_ssl, proxies>>
\* no method assigns self.config, self.timeout, self.verify_ssl,
\* self.max_retries or self.session.proxies
ClientConfigUnchanged ==
    UNCHANGED <<config, timeout, verify_ssl, max_retries, proxies>>

\* session.headers after a call whose headers were written into the session
SessionHeadersUpdated(h) == Update(session_headers, h)
\* session.headers after a call: merge_setting builds a new mapping
SessionHeadersAfterCall(h) == session_headers

\* urllib3 Retry.increment with every error counted against the budget
ErrorIsRetriedAlways(m, o) ==
    o.kind \in {"Failure", "ReadFailure"}
\* urllib3 Retry.increment: a connection error counts against the budget
\* whatever the method; a read error is re-raised unless the method is allowed
ErrorIsRetried(m, o) ==
    \/ o.kind = "Failure"
    \/ o.kind = "ReadFailure" /\ m \in allowed_methods

\* urllib3 Retry.is_retry(method, status_code, has_retry_after)
IsRetry(m, status, has_retry_after, left) ==
    /\ m \in allowed_methods
    /\ \/ status \in status_forcelist
       \/ left > 0 /\ has_retry_after /\ status \in RETRY_AFTER_STATUS_CODES

\* requests Response.is_redirect
IsRedirect(o) == o.kind = "Response" /\ o.location /\ o.status \in REDIRECT_STATI

\* requests SessionRedirectMixin.rebuild_method
RebuildMethod(m, status) ==
    IF status = 303 /\ m # "HEAD" THEN "GET"
    ELSE IF status = 302 /\ m # "HEAD" THEN "GET"
    ELSE IF status = 301 /\ m = "POST" THEN "GET"
    ELSE m

ClientIdle ==
    /\ pc = "idle"
    /\ method = "GET" /\ url = "http://target/" /\ headers = <<>>
    /\ allow_redirects = TRUE /\ extra_kwargs = {}
    /\ sent_headers = EmptyDict /\ sent_cookies = {}
    /\ req_timeout = NoTimeout /\ req_verify = TRUE /\ in_try = FALSE
    /\ total = 0 /\ attempts = 0 /\ hops = 0
    /\ last = NoValue /\ all_failed = TRUE /\ all_forced = TRUE
    /\ result = NoValue /\ raised = "none"

\* HTTPClient.__init__(proxy, custom_headers, cookies, config)
Construct(cfg, proxy, custom, cks) ==
    /\ config = cfg
    /\ timeout = cfg.timeout
    /\ verify_ssl = cfg.verify_ssl
    /\ max_retries = cfg.max_retries
    /\ proxies = proxy
    /\ custom_headers = custom
    /\ session_headers = ConstructedHeaders(custom)
    /\ cookies = cks
    /\ cookie_jar = JarOf(cks)
    /\ overridden = FALSE
    /\ ClientIdle

\* clients that differ in max_retries and custom_headers
ClientInit ==
    \E n \in 0..MaxRetries, custom \in CustomHeaderMappings :
        Construct([timeout |-> DefaultTimeout, verify_ssl |-> TRUE, max_retries |-> n],
                  NoProxy, custom, <<>>)

\* clients that differ in config, proxy and cookies
SessionInit ==
    \E cfg \in Configs, proxy \in {NoProxy, Proxy}, cks \in CookieMappings :
        Construct(cfg, proxy, <<>>, cks)

\* the try body up to the point where the request is prepared, and the
\* except clause for what is raised before any attempt
Call(m, u, h, ar, kw) ==
    /\ pc = "idle"
    /\ method' = m /\ url' = u /\ headers' = h
    /\ allow_redirects' = ar /\ extra_kwargs' = kw /\ in_try' = TRUE
    /\ IF kw \cap ExplicitKeywords # {} \/ ~(kw \subseteq SessionKeywords)
       THEN \* TypeError is no RequestException: it leaves the call
            /\ pc' = "done" /\ raised' = "TypeError"
            /\ UNCHANGED <<sent_headers, sent_cookies, req_timeout, req_verify,
                           total, result, session_headers, overridden>>
       ELSE IF ~HasScheme(u)
       THEN \* MissingSchema is caught: return None
            /\ pc' = "done" /\ result' = None
            /\ UNCHANGED <<sent_headers, sent_cookies, req_timeout, req_verify,
                           total, raised, session_headers, overridden>>
       ELSE /\ pc' = "sending"
            /\ sent_headers' = MergeSetting(h, session_headers)
            /\ sent_cookies' = CookieHeader(cookie_jar)
            /\ req_timeout' = timeout
            /\ req_verify' = verify_ssl
            /\ session_headers' = SessionHeadersAfterCall(h)
            /\ overridden' = (overridden \/ h # <<>>)
            /\ total' = RetryTotal
            /\ UNCHANGED <<result, raised>>
    /\ ClientConfigUnchanged
    /\ UNCHANGED <<cookies, cookie_jar, custom_headers, attempts, hops,
                   last, all_failed, all_forced>>

\* HTTPClient.get
Get == \E u \in Urls, h \in PerCallHeaderMappings, ar \in BOOLEAN, kw \in KwargSets :
           Call("GET", u, h, ar, kw)
\* HTTPClient.post (allow_redirects arrives through **kwargs)
Post == \E u \in Urls, h \in PerCallHeaderMappings, ar \in BOOLEAN, kw \in KwargSets :
           Call("POST", u, h, ar, kw)
\* HTTPClient.head (headers and allow_redirects arrive through **kwargs)
HeadOp == \E u \in Urls, h \in PerCallHeaderMappings, ar \in BOOLEAN, kw \in KwargSets :
           Call("HEAD", u, h, ar, kw)
\* HTTPClient.options
Options == \E u \in Urls, h \in PerCallHeaderMappings, ar \in BOOLEAN, kw \in KwargSets :
           Call("OPTIONS", u, h, ar, kw)

\* a RequestException raised under session.<verb>: inside the try of
\* get/post/head/options it is caught and None is returned; a request made on
\* the session outside them lets it through
Caught ==
    IF in_try
    THEN result' = None /\ UNCHANGED raised
    ELSE raised' = "RequestException" /\ UNCHANGED result

\* methods the four operations never send
OtherMethods == {"PUT", "DELETE"}

\* a request with another method through the session and the adapter the
\* constructor mounted on it: self.session.request(m, u), with the defaults
\* of requests for timeout, verify and allow_redirects
SessionRequest(m, u) ==
    /\ pc = "idle"
    /\ method' = m /\ url' = u /\ headers' = <<>>
    /\ allow_redirects' = TRUE /\ extra_kwargs' = {} /\ in_try' = FALSE
    /\ pc' = "sending"
    /\ sent_headers' = MergeSetting(<<>>, session_headers)
    /\ sent_cookies' = CookieHeader(cookie_jar)
    /\ req_timeout' = NoTimeout /\ req_verify' = TRUE
    /\ total' = RetryTotal
    /\ ClientConfigUnchanged
    /\ UNCHANGED <<cookies, cookie_jar, custom_headers, session_headers,
                   overridden, attempts, hops, last, all_failed, all_forced,
                   result, raised>>

\* One attempt of the mounted HTTPAdapter and what urllib3's Retry and the
\* session's redirect handling make of its outcome.
Attempt(o) ==
    /\ pc = "sending"
    /\ IsRedirect(o) /\ allow_redirects => hops < MaxHops
    /\ attempts' = attempts + 1
    /\ last' = o
    /\ all_failed' = (all_failed /\ o.kind \in {"Failure", "ReadFailure"})
    /\ all_forced' = (all_forced /\ o.kind = "Response" /\ o.status \in RetryableCodes)
    /\ IF ErrorIsRetried(method, o) \/ IsRetry(method, o.status, o.retry_after, total)
       THEN \* Retry.increment: total - 1; below zero raises MaxRetryError,
            \* which requests raises as ConnectionError or RetryError
            IF total - 1 < 0
            THEN /\ pc' = "done" /\ Caught
                 /\ UNCHANGED <<total, hops, method, cookie_jar, sent_cookies>>
            ELSE /\ total' = total - 1
                 /\ UNCHANGED <<pc, result, raised, hops, method, cookie_jar,
                                sent_cookies>>
       ELSE IF o.kind = "ReadFailure"
       THEN \* the read error is re-raised: a RequestException, no response
            /\ pc' = "done" /\ Caught
            /\ UNCHANGED <<total, hops, method, cookie_jar, sent_cookies>>
       ELSE IF allow_redirects /\ IsRedirect(o)
       THEN \* the session sends the next request with the mounted Retry
            /\ hops' = hops + 1
            /\ total' = RetryTotal
            /\ method' = RebuildMethod(method, o.status)
            /\ cookie_jar' = StoreCookies(cookie_jar, o.set_cookie)
            /\ sent_cookies' = CookieHeader(cookie_jar')
            /\ UNCHANGED <<pc, result, raised>>
       ELSE /\ pc' = "done" /\ result' = o
            /\ cookie_jar' = StoreCookies(cookie_jar, o.set_cookie)
            /\ UNCHANGED <<total, hops, method, sent_cookies, raised>>
    /\ ClientConfigUnchanged
    /\ UNCHANGED <<cookies, custom_headers, session_headers, url, headers,
                   allow_redirects, extra_kwargs, sent_headers, req_timeout,
                   req_verify, overridden, in_try>>

Send == \E o \in Outcomes : Attempt(o)

\* the caller takes the value (or the exception) and the client is free again
Return ==
    /\ pc = "done"
    /\ pc' = "idle"
    /\ method' = "GET" /\ url' = "http://target/" /\ headers' = <<>>
    /\ allow_redirects' = TRUE /\ extra_kwargs' = {}
    /\ sent_headers' = EmptyDict /\ sent_cookies' = {}
    /\ req_timeout' = NoTimeout /\ req_verify' = TRUE /\ in_try' = FALSE
    /\ total' = 0 /\ attempts' = 0 /\ hops' = 0
    /\ last' = NoValue /\ all_failed' = TRUE /\ all_forced' = TRUE
    /\ result' = NoValue /\ raised' = "none"
    /\ ClientConfigUnchanged
    /\ UNCHANGED <<cookies, cookie_jar, custom_headers, session_headers, overridden>>

-----------------------------------------------------------------------------
(* HTTPClient used by several callers at once: every caller runs a call of  *)
(* its own through the one session and the one mounted adapter.            *)

Callers == 1..MaxCallers
ConcurrentMethods == {"GET", "POST"}
ConcurrentOutcomes ==
    {Failure, ReadFailure, Response(200, FALSE, FALSE), Response(404, FALSE, FALSE),
     Response(503, FALSE, FALSE)}
IdleCall ==
    [pc |-> "idle", method |-> "GET", total |-> 0, attempts |-> 0,
     all_retried |-> TRUE, result |-> NoValue]
ConcurrentIdle ==
    /\ inflight = [c \in Callers |-> IdleCall]
    /\ adapter_retry = RetryTotal

\* a Retry object counted down in place by every retry of every call
AdapterRetryCountedDown ==
    IF adapter_retry > 0 THEN adapter_retry - 1 ELSE 0
\* urllib3 Retry.increment returns a new Retry (self.new(total=total - 1));
\* the object mounted on the adapter keeps its total
AdapterRetryAfterIncrement == adapter_retry

\* caller c enters get or post: adapter.send hands the mounted Retry to urlopen
ConcurrentCall(c, m) ==
    /\ inflight[c].pc = "idle"
    /\ inflight' = [inflight EXCEPT ![c] =
            [pc |-> "sending", method |-> m, total |-> adapter_retry,
             attempts |-> 0, all_retried |-> TRUE, result |-> NoValue]]
    /\ UNCHANGED adapter_retry

\* one transport attempt of the call of caller c, with outcome o
ConcurrentAttempt(c, o) ==
    LET call == inflight[c]
        retry == ErrorIsRetried(call.method, o)
                    \/ IsRetry(call.method, o.status, o.retry_after, call.total)
    IN  /\ call.pc = "sending"
        /\ IF retry /\ call.total - 1 >= 0
           THEN /\ inflight' = [inflight EXCEPT ![c] =
                       [call EXCEPT !.total = call.total - 1,
                                    !.attempts = call.attempts + 1]]
                /\ adapter_retry' = AdapterRetryAfterIncrement
           ELSE /\ inflight' = [inflight EXCEPT ![c] =
                       [call EXCEPT !.pc = "done",
                                    !.attempts = call.attempts + 1,
                                    !.all_retried = retry,
                                    !.result = IF retry THEN None ELSE o]]
                /\ UNCHANGED adapter_retry

\* the call of caller c returns; the caller may call again
ConcurrentReturn(c) ==
    /\ inflight[c].pc = "done"
    /\ inflight' = [inflight EXCEPT ![c] = IdleCall]
    /\ UNCHANGED adapter_retry

-----------------------------------------------------------------------------
(* _sort_vulnerabilities                                                   *)

S_critical == <<"c","r","i","t","i","c","a","l">>
S_high     == <<"h","i","g","h">>
S_medium   == <<"m","e","d","i","u","m">>
S_low      == <<"l","o","w">>
S_info     == <<"i","n","f","o">>
S_HIGH     == <<"H","I","G","H">>
S_Critical == <<"C","r","i","t","i","c","a","l">>
S_urgent   == <<"u","r","g","e","n","t">>

\* severity_order = {'critical': 0, 'high': 1, 'medium': 2, 'low': 3, 'info': 4}
severity_order ==
    (S_critical :> 0) @@ (S_high :> 1) @@ (S_medium :> 2) @@ (S_low :> 3) @@ (S_info :> 4)

\* dict.get(key, default)
Get_(d, key, default) == IF key \in DOMAIN d THEN d[key] ELSE default

\* the sort key without the .lower()
SeverityKeyCaseSensitive(x) ==
    Get_(severity_order, Get_(x, "severity", S_info), 5)
\* key=lambda x: severity_order.get(x.get('severity', 'info').lower(), 5)
SeverityKey(x) ==
    Get_(severity_order, Lower(Get_(x, "severity", S_info)), 5)

\* sorted() is stable: x goes behind every element whose key is not greater
RECURSIVE Insert(_, _)
Insert(s, x) ==
    IF s = <<>> THEN <<x>>
    ELSE IF SeverityKey(Head(s)) <= SeverityKey(x)
         THEN <<Head(s)>> \o Insert(Tail(s), x)
         ELSE <<x>> \o s

\* sorted(vulnerabilities, key=...)
RECURSIVE SortVulnerabilities(_)
SortVulnerabilities(v) ==
    IF v = <<>> THEN <<>>
    ELSE Insert(SortVulnerabilities(SubSeq(v, 1, Len(v) - 1)), v[Len(v)])

VulnTypes == {"xss", "sqli"}
Severities == {S_critical, S_Critical, S_HIGH, S_medium, S_low, S_info, S_urgent}
VulnRecords ==
    {[type |-> t, severity |-> sv] : t \in VulnTypes, sv \in Severities}
    \cup {[type |-> t] : t \in VulnTypes}

SortIdle ==
    /\ vulnerabilities = <<>> /\ rendered = <<>> /\ sort_pc = "input"

SortInit ==
    /\ vulnerabilities \in SeqsUpTo(VulnRecords, MaxVulns)
    /\ rendered = <<>>
    /\ sort_pc = "input"

\* _generate_html: the template iterates over the sorted list in order
RenderVulnerabilities ==
    /\ sort_pc = "input"
    /\ rendered' = SortVulnerabilities(vulnerabilities)
    /\ sort_pc' = "rendered"
    /\ UNCHANGED vulnerabilities

-----------------------------------------------------------------------------
(* ReportGenerator                                                         *)

\* str.startswith
StartsWith(s, prefix) ==
    /\ Len(s) >= Len(prefix)
    /\ SubSeq(s, 1, Len(prefix)) = prefix

\* str.replace(old, new): every non-overlapping occurrence, left to right
RECURSIVE Replace(_, _, _)
Replace(s, old, new) ==
    IF s = <<>> THEN <<>>
    ELSE IF StartsWith(s, old)
         THEN new \o Replace(SubSeq(s, Len(old) + 1, Len(s)), old, new)
         ELSE <<Head(s)>> \o Replace(Tail(s), old, new)

Ext_pdf  == <<".","p","d","f">>
Ext_html == <<".","h","t","m","l">>

\* html_path = output_path.replace('.pdf', '.html')
HtmlPath(path) == Replace(path, Ext_pdf, Ext_html)

P_report_pdf  == <<"r",".","p","d","f">>
P_report_html == <<"r",".","h","t","m","l">>
P_report      == <<"r">>
OutputPaths == {P_report_pdf, P_report_html, P_report}
Paths == OutputPaths \cup {HtmlPath(p) : p \in OutputPaths}

SupportedFormats == {"json", "html", "pdf"}
Formats == SupportedFormats \cup {"xml", "PDF"}
\* what the weasyprint step does when it is reached
Conversions == {"ok", "import_error", "convert_error"}

Absent == "absent"

\* open(path, 'w') and the write that follows it
WriteFile(files, path, kind) == [files EXCEPT ![path] = kind]
\* Path(path).unlink()
Unlink(files, path) == [files EXCEPT ![path] = Absent]

Op(name, path) == [op |-> name, path |-> path]

\* ---- the results structure and its JSON form ----
\* A value of Python or of a JSON document is a record of one shape:
\* tag names its type, s its characters, n its number, items its parts.
Val(tag, s, n, items) == [tag |-> tag, s |-> s, n |-> n, items |-> items]
PyNone == Val("None", <<>>, 0, <<>>)
PyStr(s) == Val("str", s, 0, <<>>)
PyInt(n) == Val("int", <<>>, n, <<>>)
PyList(xs) == Val("list", <<>>, 0, xs)
PyTuple(xs) == Val("tuple", <<>>, 0, xs)
\* a value json has no encoding for (a set, a datetime, bytes)
PyObject == Val("unencodable", <<>>, 0, <<>>)
\* one key: value of a dict
Entry(key, value) == Val("entry", <<>>, 0, <<key, value>>)
PyDict(entries) == Val("dict", <<>>, 0, entries)

JNull == Val("null", <<>>, 0, <<>>)
JString(s) == Val("string", s, 0, <<>>)
JNumber(n) == Val("number", <<>>, n, <<>>)
JArray(xs) == Val("array", <<>>, 0, xs)
\* one "name": value of an object
Member(name, value) == Val("member", name, 0, <<value>>)
JObject(members) == Val("object", <<>>, 0, members)
\* json.dump raised TypeError: the text written so far is no JSON document
JTruncated == Val("truncated", <<>>, 0, <<>>)
\* no file was written by _generate_json
JNothing == Val("nothing", <<>>, 0, <<>>)
\* json.load raised JSONDecodeError
ParseError == Val("JSONDecodeError", <<>>, 0, <<>>)

Digits == <<"0", "1", "2", "3", "4", "5", "6", "7", "8", "9">>
\* str(n) for n >= 0, as json writes an int key
RECURSIVE IntToStr(_)
IntToStr(n) ==
    IF n < 10 THEN <<Digits[n + 1]>>
    ELSE IntToStr(n \div 10) \o <<Digits[(n % 10) + 1]>>

\* json encoding with every number written as a string
RECURSIVE DumpIntAsString(_)
DumpIntAsString(v) ==
    CASE v.tag = "None" -> JNull
      [] v.tag = "str" -> JString(v.s)
      [] v.tag = "int" -> JString(IntToStr(v.n))
      [] v.tag \in {"list", "tuple"} ->
            LET xs == [i \in DOMAIN v.items |-> DumpIntAsString(v.items[i])]
            IN  IF \E i \in DOMAIN xs : xs[i] = JTruncated THEN JTruncated
                ELSE JArray(xs)
      [] v.tag = "dict" ->
            LET key(i) == v.items[i].items[1]
                ms == [i \in DOMAIN v.items |->
                        IF key(i).tag \notin {"str", "int"} THEN JTruncated
                        ELSE LET x == DumpIntAsString(v.items[i].items[2])
                             IN  IF x = JTruncated THEN JTruncated
                                 ELSE Member(IF key(i).tag = "str" THEN key(i).s
                                             ELSE IntToStr(key(i).n), x)]
            IN  IF \E i \in DOMAIN ms : ms[i] = JTruncated THEN JTruncated
                ELSE JObject(ms)
      [] OTHER -> JTruncated

\* json.dump(results, f, indent=2): None is null, a list or a tuple is an
\* array, a dict is an object whose int keys are written as strings; any
\* other value, or key, raises TypeError and leaves the text truncated
RECURSIVE Dump(_)
Dump(v) ==
    CASE v.tag = "None" -> JNull
      [] v.tag = "str" -> JString(v.s)
      [] v.tag = "int" -> JNumber(v.n)
      [] v.tag \in {"list", "tuple"} ->
            LET xs == [i \in DOMAIN v.items |-> Dump(v.items[i])]
            IN  IF \E i \in DOMAIN xs : xs[i] = JTruncated THEN JTruncated
                ELSE JArray(xs)
      [] v.tag = "dict" ->
            LET key(i) == v.items[i].items[1]
                ms == [i \in DOMAIN v.items |->
                        IF key(i).tag \notin {"str", "int"} THEN JTruncated
                        ELSE LET x == Dump(v.items[i].items[2])
                             IN  IF x = JTruncated THEN JTruncated
                                 ELSE Member(IF key(i).tag = "str" THEN key(i).s
                                             ELSE IntToStr(key(i).n), x)]
            IN  IF \E i \in DOMAIN ms : ms[i] = JTruncated THEN JTruncated
                ELSE JObject(ms)
      [] OTHER -> JTruncated

\* the entries of a parsed object: of two members of one name the later
\* value stands, at the place of the first
RECURSIVE LastWins(_)
LastWins(es) ==
    IF es = <<>> THEN <<>>
    ELSE LET n == Len(es)
             front == LastWins(SubSeq(es, 1, n - 1))
             same == {i \in DOMAIN front : front[i].items[1] = es[n].items[1]}
         IN  IF same = {} THEN Append(front, es[n])
             ELSE [i \in DOMAIN front |-> IF i \in same THEN es[n] ELSE front[i]]

\* json.load: null is None, an array is a list, an object is a dict with
\* str keys
RECURSIVE Load(_)
Load(j) ==
    CASE j.tag = "null" -> PyNone
      [] j.tag = "string" -> PyStr(j.s)
      [] j.tag = "number" -> PyInt(j.n)
      [] j.tag = "array" -> PyList([i \in DOMAIN j.items |-> Load(j.items[i])])
      [] j.tag = "object" ->
            PyDict(LastWins([i \in DOMAIN j.items |->
                        Entry(PyStr(j.items[i].s), Load(j.items[i].items[1]))]))
      [] OTHER -> ParseError

K_type == <<"t","y","p","e">>
K_severity == <<"s","e","v","e","r","i","t","y">>
K_vulnerabilities == <<"v","u","l","n","e","r","a","b","i","l","i","t","i","e","s">>
K_severity_summary == <<"s","e","v","e","r","i","t","y","_","s","u","m","m","a","r","y">>
K_reconnaissance == <<"r","e","c","o","n","n","a","i","s","s","a","n","c","e">>
TypeChars == ("xss" :> <<"x","s","s">>) @@ ("sqli" :> <<"s","q","l","i">>)

\* one entry of results['vulnerabilities'] as a Python dict
PyOfVuln(x) ==
    PyDict(<<Entry(PyStr(K_type), PyStr(TypeChars[x.type]))>>
           \o IF "severity" \in DOMAIN x
              THEN <<Entry(PyStr(K_severity), PyStr(x.severity))>>
              ELSE <<>>)
\* the results dict handed to generate
PyOfResults(r) ==
    PyDict(<<Entry(PyStr(K_vulnerabilities),
                   PyList([i \in DOMAIN r.vulnerabilities |->
                              PyOfVuln(r.vulnerabilities[i])])),
             Entry(PyStr(K_severity_summary), r.severity_summary),
             Entry(PyStr(K_reconnaissance), r.reconnaissance)>>)

\* results['severity_summary'] of a scan with these findings
SeveritySummary(v) ==
    PyDict(<<Entry(PyStr(S_critical),
                   PyInt(Cardinality({i \in DOMAIN v :
                            /\ "severity" \in DOMAIN v[i]
                            /\ v[i].severity = S_critical})))>>)
\* findings of a results structure; sorting moves the critical one first
ReportVulns ==
    {[type |-> "xss", severity |-> S_low],
     [type |-> "sqli", severity |-> S_critical],
     [type |-> "xss"]}
\* values of results['reconnaissance']
ReconValues ==
    {PyNone, PyStr(<<"a">>), PyInt(1), PyInt(12), PyObject}
        \cup {PyList(<<a>>) : a \in {PyNone, PyInt(1), PyObject}}
        \cup {PyTuple(<<PyInt(1)>>)}
        \cup {PyDict(<<Entry(k, a)>>) : k \in {PyStr(<<"1">>), PyInt(1)},
                                       a \in {PyNone, PyInt(1)}}
        \cup {PyDict(<<Entry(PyInt(1), PyNone), Entry(PyStr(<<"1">>), PyInt(1))>>),
              PyDict(<<Entry(PyTuple(<<PyInt(1)>>), PyNone)>>)}
ResultsOf(v, r) ==
    [vulnerabilities |-> v, severity_summary |-> SeveritySummary(v),
     reconnaissance |-> r]
ResultsSet ==
    {ResultsOf(v, r) : v \in SeqsUpTo(ReportVulns, MaxReportVulns), r \in ReconValues}

\* results after _generate_html had it sort the list in place
ResultsSortedInPlace(r) ==
    [r EXCEPT !.vulnerabilities = SortVulnerabilities(@)]
\* results after _generate_html: results.get(...) reads, sorted() returns a
\* new list
ResultsAfterHtml(r) == r

ReportIdle ==
    /\ json_out = JNothing
    /\ gen = "idle" /\ format = "html" /\ output_path = P_report_html
    /\ conv = "not_run" /\ fs_ops = <<>> /\ log = <<>> /\ gen_raised = "none"

ReportInit ==
    /\ fs = [p \in Paths |-> Absent]
    /\ unwritable \in SUBSET Paths
    /\ results \in {ResultsOf(<<>>, PyNone), ResultsOf(<<>>, PyObject)}
    /\ ReportIdle

\* generators given every results structure of ResultsSet
ResultsInit ==
    /\ fs = [p \in Paths |-> Absent]
    /\ unwritable = {}
    /\ results \in ResultsSet
    /\ ReportIdle

\* _generate_json with the failed open caught and logged
GenerateJsonSwallow(path) ==
    /\ UNCHANGED results
    /\ IF path \in unwritable
       THEN /\ gen' = "returned" /\ gen_raised' = "none"
            /\ log' = <<"error">> /\ fs_ops' = <<>>
            /\ json_out' = JNothing
            /\ UNCHANGED fs
       ELSE /\ fs' = WriteFile(fs, path, "json")
            /\ fs_ops' = <<Op("write", path)>>
            /\ json_out' = Dump(PyOfResults(results))
            /\ log' = <<"info">>
            /\ gen' = "returned" /\ gen_raised' = "none"

\* _generate_json
GenerateJson(path) ==
    /\ UNCHANGED results
    /\ IF path \in unwritable
       THEN \* open raises
            /\ gen' = "raised" /\ gen_raised' = "OSError"
            /\ log' = <<>> /\ fs_ops' = <<>>
            /\ json_out' = JNothing
            /\ UNCHANGED fs
       ELSE /\ fs' = WriteFile(fs, path, "json")
            /\ fs_ops' = <<Op("write", path)>>
            /\ json_out' = Dump(PyOfResults(results))
            /\ IF json_out' = JTruncated
               THEN \* json.dump raises TypeError inside the with block
                    /\ log' = <<>>
                    /\ gen' = "raised" /\ gen_raised' = "TypeError"
               ELSE /\ log' = <<"info">>
                    /\ gen' = "returned" /\ gen_raised' = "none"

\* _generate_html
GenerateHtml(path) ==
    /\ results' = ResultsAfterHtml(results)
    /\ json_out' = JNothing
    /\ IF path \in unwritable
       THEN /\ gen' = "raised" /\ gen_raised' = "OSError"
            /\ log' = <<>> /\ fs_ops' = <<>>
            /\ UNCHANGED fs
       ELSE /\ fs' = WriteFile(fs, path, "html")
            /\ fs_ops' = <<Op("write", path)>>
            /\ log' = <<"info">>
            /\ gen' = "returned" /\ gen_raised' = "none"

\* _generate_pdf with the HTML removed whatever the conversion did
GeneratePdfAlwaysUnlink(path, c) ==
    LET html_path == HtmlPath(path)
    IN  /\ results' = ResultsAfterHtml(results)
        /\ json_out' = JNothing
        /\ IF html_path \in unwritable
           THEN /\ gen' = "raised" /\ gen_raised' = "OSError"
                /\ log' = <<>> /\ fs_ops' = <<>> /\ conv' = "not_run"
                /\ UNCHANGED fs
           ELSE IF c = "ok" /\ path \notin unwritable
           THEN /\ fs' = Unlink(WriteFile(WriteFile(fs, html_path, "html"), path, "pdf"), html_path)
                /\ fs_ops' = <<Op("write", html_path), Op("write", path), Op("unlink", html_path)>>
                /\ log' = <<"info", "info">>
                /\ conv' = "ok"
                /\ gen' = "returned" /\ gen_raised' = "none"
           ELSE /\ fs' = Unlink(WriteFile(fs, html_path, "html"), html_path)
                /\ fs_ops' = <<Op("write", html_path), Op("unlink", html_path)>>
                /\ log' = <<"info", "error", "info">>
                /\ conv' = "failed"
                /\ gen' = "returned" /\ gen_raised' = "none"

\* _generate_pdf: c is what the weasyprint step does when it is reached; an
\* output path that cannot be opened makes write_pdf fail inside the try
GeneratePdf(path, c) ==
    LET html_path == HtmlPath(path)
    IN  /\ results' = ResultsAfterHtml(results)
        /\ json_out' = JNothing
        /\ IF html_path \in unwritable
           THEN \* _generate_html raises before the try
                /\ gen' = "raised" /\ gen_raised' = "OSError"
                /\ log' = <<>> /\ fs_ops' = <<>> /\ conv' = "not_run"
                /\ UNCHANGED fs
           ELSE IF c = "ok" /\ path \notin unwritable
           THEN /\ fs' = Unlink(WriteFile(WriteFile(fs, html_path, "html"), path, "pdf"), html_path)
                /\ fs_ops' = <<Op("write", html_path), Op("write", path), Op("unlink", html_path)>>
                /\ log' = <<"info", "info">>
                /\ conv' = "ok"
                /\ gen' = "returned" /\ gen_raised' = "none"
           ELSE \* except Exception: logger.error, logger.info
                /\ fs' = WriteFile(fs, html_path, "html")
                /\ fs_ops' = <<Op("write", html_path)>>
                /\ log' = <<"info", "error", "info">>
                /\ conv' = "failed"
                /\ gen' = "returned" /\ gen_raised' = "none"

\* the else branch of generate with the check placed after the HTML write
UnsupportedAfterWrite(path) ==
    /\ UNCHANGED results /\ json_out' = JNothing
    /\ fs' = IF path \in unwritable THEN fs ELSE WriteFile(fs, path, "html")
    /\ gen' = "raised" /\ gen_raised' = "ValueError"
    /\ log' = <<>> /\ fs_ops' = <<>>

\* the else branch of generate: raise ValueError
Unsupported(path) ==
    /\ UNCHANGED results /\ json_out' = JNothing
    /\ gen' = "raised" /\ gen_raised' = "ValueError"
    /\ log' = <<>> /\ fs_ops' = <<>>
    /\ UNCHANGED fs

\* ReportGenerator.generate
Generate(fmt, path, c) ==
    /\ format' = fmt /\ output_path' = path
    /\ IF fmt = "json" THEN GenerateJson(path) /\ conv' = "not_run"
       ELSE IF fmt = "html" THEN GenerateHtml(path) /\ conv' = "not_run"
       ELSE IF fmt = "pdf" THEN GeneratePdf(path, c)
       ELSE Unsupported(path) /\ conv' = "not_run"
    /\ UNCHANGED unwritable

GenerateCall == \E fmt \in Formats, path \in OutputPaths, c \in Conversions :
                    Generate(fmt, path, c)

-----------------------------------------------------------------------------
(* Specifications                                                          *)

ReportRest ==
    /\ fs = [p \in Paths |-> Absent] /\ unwritable = {} /\ ReportIdle
    /\ results = ResultsOf(<<>>, PyNone)
ClientRest ==
    Construct([timeout |-> DefaultTimeout, verify_ssl |-> TRUE, max_retries |-> 0],
              NoProxy, <<>>, <<>>)

Init == ClientInit /\ ReportRest /\ SortIdle /\ ConcurrentIdle
Next ==
    \/ Get /\ UNCHANGED <<report_vars, sort_vars, concurrent_vars>>
    \/ Post /\ UNCHANGED <<report_vars, sort_vars, concurrent_vars>>
    \/ HeadOp /\ UNCHANGED <<report_vars, sort_vars, concurrent_vars>>
    \/ Options /\ UNCHANGED <<report_vars, sort_vars, concurrent_vars>>
    \/ Send /\ UNCHANGED <<report_vars, sort_vars, concurrent_vars>>
    \/ Return /\ UNCHANGED <<report_vars, sort_vars, concurrent_vars>>
Spec == Init /\ [][Next]_vars

\* one client with its own config, proxy and cookies; calls without per-call
\* headers, responses that set or expire the session cookie
SessionOutcomes ==
    Outcomes \cup {ReadFailure}
        \cup {WithCookie(Response(200, FALSE, FALSE), sc) : sc \in {"set", "expire"}}
        \cup {WithCookie(Response(302, FALSE, TRUE), sc) : sc \in {"set", "expire"}}
SessionCall ==
    \E m \in Methods, ar \in BOOLEAN, kw \in KwargSets :
        Call(m, "http://target/", <<>>, ar, kw)
SessionSend == \E o \in SessionOutcomes : Attempt(o)
InitSession == SessionInit /\ ReportRest /\ SortIdle /\ ConcurrentIdle
NextSession ==
    \/ SessionCall /\ UNCHANGED <<report_vars, sort_vars, concurrent_vars>>
    \/ SessionSend /\ UNCHANGED <<report_vars, sort_vars, concurrent_vars>>
    \/ Return /\ UNCHANGED <<report_vars, sort_vars, concurrent_vars>>
SpecSession == InitSession /\ [][NextSession]_vars

\* the retry policy of the mounted adapter, for the methods of the four
\* operations and for other methods sent through the same session
PolicyRequest == \E m \in OtherMethods : SessionRequest(m, "http://target/")
PolicyOutcomes == Outcomes \cup {ReadFailure}
PolicySend == \E o \in PolicyOutcomes : Attempt(o)
InitPolicy ==
    /\ \E n \in 0..MaxRetries :
          Construct([timeout |-> DefaultTimeout, verify_ssl |-> TRUE, max_retries |-> n],
                    NoProxy, <<>>, <<>>)
    /\ ReportRest /\ SortIdle /\ ConcurrentIdle
NextPolicy ==
    \/ SessionCall /\ UNCHANGED <<report_vars, sort_vars, concurrent_vars>>
    \/ PolicyRequest /\ UNCHANGED <<report_vars, sort_vars, concurrent_vars>>
    \/ PolicySend /\ UNCHANGED <<report_vars, sort_vars, concurrent_vars>>
    \/ Return /\ UNCHANGED <<report_vars, sort_vars, concurrent_vars>>
SpecPolicy == InitPolicy /\ [][NextPolicy]_vars

\* several callers on one client
ConcurrentCalls ==
    \E c \in Callers, m \in ConcurrentMethods : ConcurrentCall(c, m)
ConcurrentSend ==
    \E c \in Callers, o \in ConcurrentOutcomes : ConcurrentAttempt(c, o)
ConcurrentReturns == \E c \in Callers : ConcurrentReturn(c)
InitConcurrent ==
    /\ \E n \in 0..MaxRetries :
          Construct([timeout |-> DefaultTimeout, verify_ssl |-> TRUE, max_retries |-> n],
                    NoProxy, <<>>, <<>>)
    /\ ReportRest /\ SortIdle /\ ConcurrentIdle
NextConcurrent ==
    \/ ConcurrentCalls /\ UNCHANGED <<client_vars, report_vars, sort_vars>>
    \/ ConcurrentSend /\ UNCHANGED <<client_vars, report_vars, sort_vars>>
    \/ ConcurrentReturns /\ UNCHANGED <<client_vars, report_vars, sort_vars>>
SpecConcurrent == InitConcurrent /\ [][NextConcurrent]_vars

InitReport == ClientRest /\ ReportInit /\ SortIdle /\ ConcurrentIdle
NextReport == GenerateCall /\ UNCHANGED <<client_vars, sort_vars, concurrent_vars>>
SpecReport == InitReport /\ [][NextReport]_vars

InitResults == ClientRest /\ ResultsInit /\ SortIdle /\ ConcurrentIdle
ResultsCall ==
    \E fmt \in Formats, c \in {"ok", "convert_error"} : Generate(fmt, P_report_pdf, c)
NextResults == ResultsCall /\ UNCHANGED <<client_vars, sort_vars, concurrent_vars>>
SpecResults == InitResults /\ [][NextResults]_vars

InitSort == ClientRest /\ ReportRest /\ SortInit /\ ConcurrentIdle
NextSort == RenderVulnerabilities /\ UNCHANGED <<client_vars, report_vars, concurrent_vars>>
SpecSort == InitSort /\ [][NextSort]_vars

-----------------------------------------------------------------------------
(* Properties of HTTPClient, checked under Spec                            *)

\* C1: every call of get, post, head or options ends by returning a response
\* or None; no exception leaves the call, whatever the arguments.
C1_NeverRaises ==
    pc = "done" => raised = "none" /\ result.kind \in {"Response", "None"}

\* C2 as stated: when every attempt is answered with a retryable status code,
\* the call makes max_retries + 1 attempts and returns the last response.
C2_ReturnsLastRetryableResponse ==
    (pc = "done" /\ raised = "none" /\ attempts >= 1 /\ all_forced)
        => /\ attempts = max_retries + 1
           /\ result.kind = "Response"
           /\ result = last

\* C2 as amended: when every attempt is answered with a retryable status
\* code, the call makes max_retries + 1 attempts and returns None.
C2_ExhaustedStatusRetriesReturnNone ==
    (pc = "done" /\ raised = "none" /\ attempts >= 1 /\ all_forced)
        => /\ attempts = max_retries + 1
           /\ result = None

C2_Witness ==
    /\ pc = "done" /\ all_forced /\ max_retries = 2 /\ attempts = 3
    /\ last.status = 503 /\ result = None

\* C3: when every attempt fails with a transport-level failure, the call
\* makes max_retries + 1 attempts and returns None.
C3_TransportFailuresExhaustRetries ==
    (pc = "done" /\ raised = "none" /\ attempts >= 1 /\ all_failed)
        => /\ attempts = max_retries + 1
           /\ result = None

C3_Witness ==
    /\ pc = "done" /\ all_failed /\ max_retries = 2 /\ attempts = 3
    /\ result = None

\* C4 as stated: an attempt answered with a status code outside the retryable
\* set ends the call, which returns that response.
C4_NonRetryableStatusEndsCall ==
    (attempts >= 1 /\ last.kind = "Response" /\ last.status \notin RetryableCodes)
        => /\ pc = "done"
           /\ result = last

\* C4 as amended: an attempt answered with a status code outside the
\* retryable set ends the call, which returns that response, unless the
\* response is a redirect the call follows (301, 302, 303, 307 or 308 with a
\* Location header while redirects are allowed) or a 413 carrying a
\* Retry-After header.
C4_NonRetryableStatusEndsCallUnlessFollowed ==
    (/\ attempts >= 1 /\ last.kind = "Response" /\ last.status \notin RetryableCodes
     /\ ~(allow_redirects /\ last.location /\ last.status \in {301, 302, 303, 307, 308})
     /\ ~(last.status = 413 /\ last.retry_after))
        => /\ pc = "done"
           /\ result = last

C4_Witness ==
    /\ pc = "done" /\ max_retries = 2 /\ attempts = 1
    /\ last.status = 404 /\ result = last /\ result.kind = "Response"

\* header names compared without regard to case
SameName(a, b) ==
    /\ Len(a) = Len(b)
    /\ \A i \in 1..Len(a) : LowerChar(a[i]) = LowerChar(b[i])
Has(pairs, name) == \E i \in DOMAIN pairs : SameName(pairs[i][1], name)
ValueIn(pairs, name) ==
    pairs[CHOOSE i \in DOMAIN pairs : SameName(pairs[i][1], name)][2]
NotSent == "<not sent>"
\* the value the precedence rule gives a header name
ByPrecedence(name) ==
    IF Has(headers, name) THEN ValueIn(headers, name)
    ELSE IF Has(custom_headers, name) THEN ValueIn(custom_headers, name)
    ELSE IF Has(DefaultHeaders, name) THEN ValueIn(DefaultHeaders, name)
    ELSE NotSent
\* the value the prepared request carries for a header name
Sent(name) ==
    IF \E k \in DOMAIN sent_headers : SameName(k, name)
    THEN sent_headers[CHOOSE k \in DOMAIN sent_headers : SameName(k, name)]
    ELSE NotSent
AllHeaderNames ==
    HeaderNames \cup {DefaultHeaders[i][1] : i \in DOMAIN DefaultHeaders}

\* C10: for every header name and every verb, the value sent is the per-call
\* value if there is one, else the custom value given at construction if
\* there is one, else the built-in default; names compare case-insensitively.
C10_HeaderPrecedence ==
    (pc = "sending" \/ attempts >= 1)
        => \A name \in AllHeaderNames : Sent(name) = ByPrecedence(name)

C10_Witness ==
    /\ pc = "sending" /\ method = "OPTIONS"
    /\ custom_headers = << <<H_X_Scan, "custom">> >>
    /\ headers = << <<H_x_scan, "per-call">> >>
    /\ Sent(H_X_Scan) = "per-call"
    /\ Sent(H_User_Agent) = user_agent

\* C15 as stated: one call never makes more than max_retries + 1 transport
\* attempts, whatever mix of failures, retryable statuses and redirects.
C15_AttemptsWithinOneBudget ==
    attempts <= max_retries + 1

\* C15 as amended: one call never makes more than max_retries + 1 transport
\* attempts for each request it sends; every redirect it follows is a new
\* request with a full budget, so the total is at most
\* (max_retries + 1) * (redirects followed + 1).
C15_AttemptsWithinBudgetPerRequest ==
    attempts <= (max_retries + 1) * (hops + 1)

C15_Witness ==
    /\ pc = "done" /\ max_retries = 2 /\ hops = 1 /\ attempts = 6
    /\ result = None

\* C19: headers given to one call affect that call only: the session's
\* headers stay those of construction, and a call made without per-call
\* headers sends exactly the construction-time headers, whatever earlier
\* calls overrode.
C19_PerCallHeadersDoNotLeak ==
    LET constructed == ConstructedHeaders(custom_headers)
    IN  /\ session_headers = constructed
        /\ (pc = "sending" /\ headers = <<>>) => sent_headers = constructed

C19_Witness ==
    /\ overridden /\ custom_headers # <<>>
    /\ pc = "sending" /\ headers = <<>>
    /\ sent_headers = ConstructedHeaders(custom_headers)

-----------------------------------------------------------------------------
(* Properties of HTTPClient, checked under SpecSession                     *)

\* C11: every request of every call, first attempts, retries and requests
\* after a redirect alike, carries each cookie given at construction with the
\* value given at construction, whatever earlier responses set or expired.
C11_ConstructionCookiesSent ==
    pc = "sending" =>
        \A i \in DOMAIN cookies : <<cookies[i][1], cookies[i][2]>> \in sent_cookies

C11_Witness ==
    /\ pc = "sending" /\ hops = 1 /\ attempts > 1
    /\ cookies # <<>>
    /\ [domain |-> Host, name |-> CookieName, value |-> "srv"] \in cookie_jar
    /\ sent_cookies = {<<CookieName, "ctor">>, <<CookieName, "srv">>}

\* C12: no step of get, post, head or options changes the configuration of
\* the client: the config mapping, timeout, verify_ssl, max_retries and the
\* proxy settings stay what construction made them.
C12_ConfigurationUnchanged ==
    [][/\ config' = config
       /\ timeout' = timeout
       /\ verify_ssl' = verify_ssl
       /\ max_retries' = max_retries
       /\ proxies' = proxies]_vars

C12_Witness ==
    /\ pc = "done" /\ attempts > max_retries /\ max_retries > 0
    /\ config.timeout # DefaultTimeout /\ ~config.verify_ssl
    /\ timeout = config.timeout /\ verify_ssl = config.verify_ssl
    /\ max_retries = config.max_retries /\ proxies = Proxy

\* C13: every attempt is sent with the configured timeout and TLS flag, no
\* per-call argument changes them, and a call that is given timeout= or
\* verify= still ends with a response or None, not with an error.
C13_ConfiguredTimeoutAndTls ==
    /\ pc = "sending" => (req_timeout = timeout /\ req_verify = verify_ssl)
    /\ (pc = "done" /\ extra_kwargs \cap ExplicitKeywords # {}) => raised = "none"

-----------------------------------------------------------------------------
(* Properties of the retry policy, checked under SpecPolicy                *)

-----------------------------------------------------------------------------
(* Properties of concurrent calls, checked under SpecConcurrent            *)

\* C16: the retry budget is local to one call: whether calls run one after
\* the other or at the same time on one client, each call starts with the
\* full budget of max_retries retries, and the attempts other calls consume
\* neither reduce nor extend what is left to it.
C16_RetryBudgetLocalToCall ==
    \A c \in Callers :
        /\ inflight[c].pc = "sending"
              => inflight[c].total = max_retries - inflight[c].attempts
        /\ (inflight[c].pc = "done" /\ inflight[c].all_retried)
              => (inflight[c].attempts = max_retries + 1 /\ inflight[c].result = None)
        /\ inflight[c].pc = "done" => inflight[c].attempts <= max_retries + 1

C16_Witness ==
    /\ max_retries = 2
    /\ inflight[1].pc = "done" /\ inflight[1].all_retried /\ inflight[1].attempts = 3
    /\ inflight[2].pc = "sending" /\ inflight[2].attempts = 1 /\ inflight[2].total = 1

-----------------------------------------------------------------------------
(* Properties of ReportGenerator, checked under SpecReport                 *)

\* C5: generate with a format outside {json, html, pdf} raises the
\* format-validation error (ValueError) and leaves every file as it was.
C5_UnsupportedFormatTouchesNoFile ==
    [][(format' \notin SupportedFormats /\ gen' # "idle")
        => /\ gen' = "raised"
           /\ gen_raised' = "ValueError"
           /\ fs' = fs]_vars

C5_Witness ==
    /\ gen = "raised" /\ gen_raised = "ValueError" /\ format = "xml"
    /\ fs[P_report_html] = "html" /\ fs[P_report] = "json"

\* C6: when generate returns for a supported format, a file exists at
\* output_path, or, after a failed PDF conversion, at the adjacent .html path.
C6_FileAtOutputPath ==
    (gen = "returned" /\ format \in SupportedFormats)
        => \/ fs[output_path] # Absent
           \/ /\ format = "pdf" /\ conv = "failed"
              /\ fs[HtmlPath(output_path)] # Absent

\* C7: when the conversion step of a pdf generate fails, generate returns
\* without raising, the failure is logged, and the HTML document written
\* before the conversion is at the adjacent HTML path.
C7_FailedConversionKeepsHtml ==
    (format = "pdf" /\ conv = "failed")
        => /\ gen = "returned"
           /\ gen_raised = "none"
           /\ \E i \in DOMAIN log : log[i] = "error"
           /\ fs[HtmlPath(output_path)] = "html"

C7_Witness ==
    /\ format = "pdf" /\ conv = "failed" /\ gen = "returned"
    /\ output_path = P_report_pdf
    /\ fs[P_report_html] = "html" /\ fs[P_report_pdf] = Absent

\* C8 as stated: for json and html, a failed write of the output file is
\* only logged; generate does not raise.
C8_WriteFailureOnlyLogged ==
    (gen # "idle" /\ format \in {"json", "html"} /\ output_path \in unwritable)
        => /\ gen = "returned"
           /\ gen_raised = "none"

\* C8 as amended: for json and html, a failed write of the output file
\* leaves generate as the exception of the failed open (OSError); nothing is
\* logged.
C8_WriteFailureRaises ==
    (gen # "idle" /\ format \in {"json", "html"} /\ output_path \in unwritable)
        => /\ gen = "raised"
           /\ gen_raised = "OSError"
           /\ log = <<>>

C8_Witness ==
    /\ gen = "raised" /\ gen_raised = "OSError" /\ format = "json"
    /\ output_path = P_report /\ P_report \in unwritable

\* C18: in PDF mode the steps are, in this order, write the HTML to the
\* adjacent HTML path, convert it to the PDF at the output path, delete the
\* HTML; the HTML is deleted only after a successful conversion, and after a
\* successful generate(..., 'pdf') no file is at the HTML path and the PDF is
\* at the output path.
C18_PdfStepsInOrder ==
    /\ (gen = "returned" /\ format = "pdf" /\ conv = "ok")
          => /\ fs_ops = <<Op("write", HtmlPath(output_path)),
                           Op("write", output_path),
                           Op("unlink", HtmlPath(output_path))>>
             /\ fs[HtmlPath(output_path)] = Absent
             /\ fs[output_path] = "pdf"
    /\ (gen = "returned" /\ format = "pdf" /\ conv # "ok")
          => \A i \in DOMAIN fs_ops : fs_ops[i].op # "unlink"

-----------------------------------------------------------------------------
(* Properties of ReportGenerator, checked under SpecResults                *)

\* a structure of None, str, int, lists and dicts with str keys only
RECURSIVE JsonNative(_)
JsonNative(v) ==
    \/ v.tag \in {"None", "str", "int"}
    \/ v.tag = "list" /\ \A i \in DOMAIN v.items : JsonNative(v.items[i])
    \/ /\ v.tag = "dict"
       /\ \A i \in DOMAIN v.items :
            /\ v.items[i].items[1].tag = "str"
            /\ JsonNative(v.items[i].items[2])

\* C14 as stated: for every results structure, generate(results, path,
\* 'json') followed by parsing the written file gives a structure equal to
\* results, no field lost or changed.
C14_JsonRoundTrip ==
    (format = "json" /\ gen # "idle" /\ output_path \notin unwritable)
        => (gen = "returned" /\ Load(json_out) = PyOfResults(results))

\* C14 as amended: for every results structure built only of None, strings,
\* integers, lists and dicts with string keys, generate(results, path,
\* 'json') followed by parsing the written file gives a structure equal to
\* results.
C14_JsonRoundTripOfJsonNative ==
    (format = "json" /\ gen # "idle" /\ output_path \notin unwritable
        /\ JsonNative(PyOfResults(results)))
        => (gen = "returned" /\ Load(json_out) = PyOfResults(results))

C14_Witness ==
    /\ format = "json" /\ gen = "returned" /\ output_path \notin unwritable
    /\ Len(results.vulnerabilities) = 2
    /\ results.reconnaissance = PyDict(<<Entry(PyStr(<<"1">>), PyInt(1))>>)
    /\ json_out # JNothing
    /\ Load(json_out) = PyOfResults(results)

\* C20: generate never modifies the results it is given: for every format
\* the vulnerability list and its order, the severity counts and every other
\* field are after the call what they were before it.
C20_ResultsUnchanged ==
    [][results' = results]_vars

C20_Witness ==
    /\ format \in {"html", "pdf"} /\ gen = "returned"
    /\ Len(results.vulnerabilities) = 2
    /\ results.vulnerabilities # SortVulnerabilities(results.vulnerabilities)

-----------------------------------------------------------------------------
(* Properties of _sort_vulnerabilities, checked under SpecSort             *)

\* the severity rank of a record: its severity looked up without regard to
\* case, 5 for any other value; a record without severity counts as info
RankOf(x) ==
    LET sv == IF "severity" \in DOMAIN x THEN x.severity ELSE S_info
    IN  IF SameName(sv, S_critical) THEN 0
        ELSE IF SameName(sv, S_high) THEN 1
        ELSE IF SameName(sv, S_medium) THEN 2
        ELSE IF SameName(sv, S_low) THEN 3
        ELSE IF SameName(sv, S_info) THEN 4
        ELSE 5

IndexPermutations(n) ==
    {f \in [1..n -> 1..n] : \A i, j \in 1..n : i # j => f[i] # f[j]}

\* C9: the HTML report lists the records in the order of a stable sort of
\* the input by severity rank: a permutation of the input, ranks
\* non-decreasing, records of equal rank in input order.
C9_StableSortBySeverity ==
    sort_pc = "rendered"
        => /\ Len(rendered) = Len(vulnerabilities)
           /\ \E f \in IndexPermutations(Len(vulnerabilities)) :
                /\ \A i \in 1..Len(rendered) : rendered[i] = vulnerabilities[f[i]]
                /\ \A i, j \in 1..Len(rendered) :
                      i < j => /\ RankOf(rendered[i]) <= RankOf(rendered[j])
                               /\ RankOf(rendered[i]) = RankOf(rendered[j]) => f[i] < f[j]

C9_Witness ==
    /\ sort_pc = "rendered"
    /\ vulnerabilities = << [type |-> "xss", severity |-> S_HIGH],
                            [type |-> "sqli", severity |-> S_Critical],
                            [type |-> "xss", severity |-> S_critical] >>
    /\ rendered = << [type |-> "sqli", severity |-> S_Critical],
                     [type |-> "xss", severity |-> S_critical],
                     [type |-> "xss", severity |-> S_HIGH] >>

====
